---- MODULE Spec2Model ----
(***************************************************************************)
(* Model of src/src/02_semiconductor_getting_data.py: the bounded-depth    *)
(* crawl of recursive_org_exploration, the record building of              *)
(* process_results / process_related_organizations and the merge of        *)
(* save_results_to_csv.  The two DBpedia queries are external calls; each  *)
(* call's answer is chosen nondeterministically from a bounded set.        *)
(***************************************************************************)
EXTENDS Integers, Sequences, FiniteSets, TLC

VARIABLES
    seed_organizations, \* argument of recursive_org_exploration
    max_depth,          \* argument of recursive_org_exploration
    queue,              \* list of <<org_name, depth>>
    all_org_data,       \* list of org_data records
    explored_uris,      \* set of uris
    relationships,      \* dict uri -> set of uris: entries [key, val] in
                        \* insertion order
    pc,                 \* position in the program
    org_name, depth,    \* the dequeued item
    org_data,           \* the record of the dequeued item
    uri_idx,            \* position of the for-uri loop in org_data.dbpedia_uri
    orgs_df, rel_df,    \* the two tables save_results_to_csv writes
    results_in,         \* argument of process_results when it is run alone
    \* history variables (not program state): what the run has done so far
    queue_hops,         \* per queue entry: relation hops from a seed
    hops,               \* relation hops of the dequeued item
    ent_calls,          \* names passed to query_dbpedia_for_organization
    ent_uris,           \* identifiers its answers carried
    rel_calls,          \* uri -> number of query_related_organizations calls
    rel_hops,           \* uri -> hops of the item whose processing queried it
    enqueued,           \* number of queue.append calls
    dequeued,           \* an item has been popped from the queue
    pauses,             \* time.sleep calls since the last dequeue
    fresh,              \* explored_uris.add calls since the last dequeue
    unpaused,           \* a resolver call was made and no time.sleep since
    failed,             \* which resolver call of the last step raised, if any
    \* 02_semiconductor_normalizing_data.py,
    \* normalize_with_smaller_batches_and_fallbacks
    company_names,      \* argument: list of names
    norm_results,       \* the dict `results`: entries [key, val]
    failed_names,       \* list of names whose first-pass call raised
    name_idx,           \* position of the running pass in its list
    llm_ok,             \* history: names for which some call returned
    by_fallback         \* history: names whose entry the fallback wrote

progVars == <<seed_organizations, max_depth, queue, all_org_data,
              explored_uris, relationships, pc, org_name, depth, org_data,
              uri_idx, orgs_df, rel_df, results_in>>
histVars == <<queue_hops, hops, ent_calls, ent_uris, rel_calls, rel_hops,
              enqueued, dequeued, pauses, fresh, unpaused>>
normVars == <<company_names, norm_results, failed_names, name_idx, llm_ok,
              by_fallback>>
vars == <<progVars, histVars, failed, normVars>>

\* the normalizer is not running
NormIdle ==
    /\ company_names = <<>> /\ norm_results = <<>> /\ failed_names = <<>>
    /\ name_idx = 0 /\ llm_ok = {} /\ by_fallback = {}

(***************************************************************************)
(* Bounds and value sets                                                   *)
(***************************************************************************)
MaxSeeds == 2
MaxDepthBound == 1
MaxRows == 2
MaxRelated == 2
MaxRecords == 2
MaxKeys == 2
MaxProcessRows == 3
MaxNames == 3

\* Python's None where a dict is expected, and where a string is expected
None == [none |-> TRUE]
NoneStr == "<None>"
Names == {"A", "B"}
CrawlUris == {"x", "y"}
\* identifiers that hold the separator save_results_to_csv joins pairs with
PipeUris == {"a", "a||", "||a"}

SeqsUpTo(S, n) == UNION {[1..k -> S] : k \in 0..n}
Range(s) == {s[i] : i \in 1..Len(s)}

(***************************************************************************)
(* Resolver answers.  A binding is a dict: a function whose domain is the  *)
(* set of keys the row carries.                                            *)
(***************************************************************************)
\* rows of the entity query: with an identifier, or without one (every
\* column of the SELECT but ?label is optional in a binding)
CrawlBindings ==
    {[organization |-> u] : u \in CrawlUris} \cup {[label |-> "l1"]}

\* what sparql.query().convert() can hand back, or None on an exception
EntityAnswers ==
    {None, [head |-> "h"], [results |-> [other |-> "o"]]}
    \cup {[results |-> [bindings |-> b]] : b \in SeqsUpTo(CrawlBindings, MaxRows)}

\* ?relatedOrg rdfs:label ?relatedOrgLabel: the label the knowledge base
\* holds for a related identifier
LabelOf(u) == IF u = "x" THEN "A" ELSE "B"

\* rows of the relation query: usable ones, and ones lacking the label
RelatedBindings ==
    {[relatedOrg |-> u, relatedOrgLabel |-> LabelOf(u), relation |-> "outgoing",
      relationType |-> "dbo:subsidiary"] : u \in CrawlUris}
    \cup {[relatedOrg |-> u, relation |-> "incoming"] : u \in CrawlUris}

RelatedAnswers ==
    {None, [head |-> "h"], [results |-> [other |-> "o"]]}
    \cup {[results |-> [bindings |-> b]] :
              b \in SeqsUpTo(RelatedBindings, MaxRelated)}

\* an exception raised inside the try block of a query function
Raised == [raised |-> TRUE]

\* how a call of a query function can go: convert() hands back a value, or
\* the request or the conversion raises
EntityOutcomes == (EntityAnswers \ {None}) \cup {Raised}
RelatedOutcomes == (RelatedAnswers \ {None}) \cup {Raised}

\* mutant: the exception is not caught
query_dbpedia_for_organizationUncaught(outcome) == outcome

\* lines 58-68: try: return results / except Exception: return None
query_dbpedia_for_organization(outcome) ==
    IF outcome = Raised THEN None ELSE outcome

\* lines 199-208: try: return results / except Exception: return None
query_related_organizations(outcome) ==
    IF outcome = Raised THEN None ELSE outcome

(***************************************************************************)
(* process_results                                                         *)
(***************************************************************************)
HasBindings(results) ==
    /\ results # None
    /\ "results" \in DOMAIN results
    /\ "bindings" \in DOMAIN results.results

RECURSIVE CollectDistinct(_, _)
\* mutant: a value is appended only when the list does not hold it yet
CollectDistinct(bindings, key) ==
    IF bindings = <<>> THEN <<>>
    ELSE LET init == CollectDistinct(SubSeq(bindings, 1, Len(bindings) - 1), key)
             b == bindings[Len(bindings)]
         IN IF key \in DOMAIN b /\ b[key] \notin Range(init)
            THEN Append(init, b[key]) ELSE init

RECURSIVE Collect(_, _)
\* the values of `key` in the bindings that carry it, in binding order
Collect(bindings, key) ==
    IF bindings = <<>> THEN <<>>
    ELSE LET b == Head(bindings)
             rest == Collect(Tail(bindings), key)
         IN IF key \in DOMAIN b THEN <<b[key]>> \o rest ELSE rest

process_results(results, name) ==
    IF ~HasBindings(results) THEN None
    ELSE IF Len(results.results.bindings) = 0 THEN None
    ELSE LET bindings == results.results.bindings
         IN [name |-> name,
             dbpedia_uri |-> Collect(bindings, "organization"),
             abstract |-> Collect(bindings, "abstract"),
             headquarters |-> Collect(bindings, "headquarters"),
             founding_date |-> Collect(bindings, "foundingDate"),
             industry |-> Collect(bindings, "industry"),
             employees |-> Collect(bindings, "numberOfEmployees"),
             locations |-> Collect(bindings, "location"),
             countries |-> Collect(bindings, "country")]

(***************************************************************************)
(* process_related_organizations                                           *)
(***************************************************************************)
RelatedOrg(binding) ==
    [uri |-> binding.relatedOrg,
     label |-> binding.relatedOrgLabel,
     relation_direction |->
         IF "relation" \in DOMAIN binding THEN binding.relation ELSE "unknown",
     relation_type |->
         IF "relationType" \in DOMAIN binding THEN binding.relationType
         ELSE "unknown"]

RECURSIVE UsableRelated(_)
UsableRelated(bindings) ==
    IF bindings = <<>> THEN <<>>
    ELSE LET b == Head(bindings)
             rest == UsableRelated(Tail(bindings))
         IN IF "relatedOrg" \in DOMAIN b /\ "relatedOrgLabel" \in DOMAIN b
            THEN <<RelatedOrg(b)>> \o rest ELSE rest

process_related_organizations(results) ==
    IF ~HasBindings(results) THEN <<>>
    ELSE UsableRelated(results.results.bindings)

(***************************************************************************)
(* recursive_org_exploration                                               *)
(***************************************************************************)
\* the keys of a dict
Keys(d) == {d[i].key : i \in 1..Len(d)}

\* d[k] for a key of d
Lookup(d, k) == d[CHOOSE i \in 1..Len(d) : d[i].key = k].val

\* mutant: the assignment is left out
DictSetDropped(d, k, v) == d

\* mutant: the dict is replaced by one that holds the new entry alone
DictSetAlone(d, k, v) == <<[key |-> k, val |-> v]>>

\* d[k] = v: an existing key keeps its place, a new key goes last
DictSet(d, k, v) ==
    IF k \in Keys(d)
    THEN [i \in 1..Len(d) |-> IF d[i].key = k THEN [key |-> k, val |-> v]
                              ELSE d[i]]
    ELSE Append(d, [key |-> k, val |-> v])

\* queue = [(org, 0) for org in seed_organizations]
SeedQueue(seeds) == [i \in 1..Len(seeds) |-> <<seeds[i], 0>>]

\* if depth > max_depth: continue
DepthExceeded(d, m) == d > m

\* mutant: the comparison taken inclusive
MayExpandInclusive(d, m) == d <= m

\* if depth < max_depth: (relations are queried)
MayExpand(d, m) == d < m

\* mutant: the identifier is not recorded as explored
MarkExploredForgotten(explored, uri) == explored

\* explored_uris.add(uri)
MarkExplored(explored, uri) == explored \cup {uri}

\* mutant: the appended entry is two levels below the item
NextDepthTwo(d) == d + 2

\* mutant: the appended entry inherits the depth of the item
NextDepthSame(d) == d

\* the depth of an entry appended while processing an item of depth d
NextDepth(d) == d + 1

\* while queue: (the loop is left when this is false)
QueueNonEmpty(q) == q # <<>>

RECURSIVE RelatedSet(_)
\* relationships[uri] = set(); relationships[uri].add(related_uri) per row
RelatedSet(related_orgs) ==
    IF related_orgs = <<>> THEN {}
    ELSE {Head(related_orgs).uri} \cup RelatedSet(Tail(related_orgs))

RECURSIVE Enqueue(_, _, _, _)
\* if related_uri not in explored_uris: queue.append((related_label, depth + 1))
Enqueue(q, related_orgs, explored, d) ==
    IF related_orgs = <<>> THEN q
    ELSE LET r == Head(related_orgs)
             q1 == IF r.uri \notin explored
                   THEN Append(q, <<r.label, NextDepth(d)>>) ELSE q
         IN Enqueue(q1, Tail(related_orgs), explored, d)

\* where the for-uri loop goes after the identifier at position i
AfterUri(i, data) == IF i < Len(data.dbpedia_uri) THEN "foruri" ELSE "loop"

\* mutant: the entry is taken from the end of the list
PopLast(q) == [item |-> q[Len(q)], rest |-> SubSeq(q, 1, Len(q) - 1)]

\* queue.pop(0): the first entry and the list left behind
Pop(q) == [item |-> Head(q), rest |-> Tail(q)]

\* mutant: only a missing record is skipped
SkipRecordNoneOnly(data) == data = None

\* if not org_data or not org_data["dbpedia_uri"]: continue
SkipRecord(data) == data = None \/ data.dbpedia_uri = <<>>

Init ==
    /\ seed_organizations \in SeqsUpTo(Names, MaxSeeds)
    /\ max_depth \in -1..MaxDepthBound
    /\ queue = SeedQueue(seed_organizations)
    /\ all_org_data = <<>>
    /\ explored_uris = {}
    /\ relationships = <<>>
    /\ pc = "loop"
    /\ org_name = NoneStr /\ depth = 0 /\ org_data = None /\ uri_idx = 0
    /\ orgs_df = <<>> /\ rel_df = <<>>
    /\ queue_hops = [i \in 1..Len(seed_organizations) |-> 0]
    /\ hops = 0
    /\ ent_calls = <<>> /\ ent_uris = {}
    /\ rel_calls = [u \in CrawlUris |-> 0]
    /\ rel_hops = [u \in CrawlUris |-> 0]
    /\ enqueued = 0 /\ dequeued = FALSE
    /\ pauses = 0 /\ fresh = 0 /\ unpaused = FALSE
    /\ failed = "no" /\ results_in = None
    /\ NormIdle

\* lines 273-276: an entry beyond the depth bound is popped and dropped
Discard ==
    /\ pc = "loop" /\ QueueNonEmpty(queue)
    /\ DepthExceeded(Pop(queue).item[2], max_depth)
    /\ queue' = Pop(queue).rest
    /\ queue_hops' = Pop(queue_hops).rest
    /\ org_name' = Pop(queue).item[1] /\ depth' = Pop(queue).item[2]
    /\ hops' = Pop(queue_hops).item
    /\ dequeued' = TRUE
    /\ pauses' = 0 /\ fresh' = 0
    /\ UNCHANGED <<seed_organizations, max_depth, all_org_data, explored_uris,
                   relationships, pc, org_data, uri_idx, orgs_df, rel_df,
                   ent_calls, ent_uris, rel_calls, rel_hops, enqueued, unpaused>>
    /\ failed' = "no" /\ UNCHANGED <<results_in, normVars>>

\* lines 273-287: pop, query the entity resolver, skip or append the record
ResolveEntity ==
    /\ pc = "loop" /\ QueueNonEmpty(queue)
    /\ ~DepthExceeded(Pop(queue).item[2], max_depth)
    /\ \E outcome \in EntityOutcomes :
         LET name == Pop(queue).item[1]
             results == query_dbpedia_for_organization(outcome)
             data == process_results(results, name)
             skip == SkipRecord(data)
         IN /\ org_name' = name
            /\ org_data' = data
            /\ all_org_data' = IF skip THEN all_org_data
                               ELSE Append(all_org_data, data)
            \* an exception that leaves the query function ends the crawl
            /\ pc' = IF results = Raised THEN "aborted"
                     ELSE IF skip THEN "loop" ELSE AfterUri(0, data)
            /\ uri_idx' = IF skip THEN uri_idx ELSE 1
            /\ ent_calls' = Append(ent_calls, name)
            /\ ent_uris' = ent_uris \cup
                   (IF data = None THEN {} ELSE Range(data.dbpedia_uri))
            /\ failed' = IF outcome = Raised THEN "entity" ELSE "no"
    /\ depth' = Pop(queue).item[2]
    /\ queue' = Pop(queue).rest
    /\ queue_hops' = Pop(queue_hops).rest
    /\ hops' = Pop(queue_hops).item
    /\ dequeued' = TRUE
    /\ pauses' = 0 /\ fresh' = 0
    /\ unpaused' = TRUE
    /\ UNCHANGED <<seed_organizations, max_depth, explored_uris, relationships,
                   orgs_df, rel_df, rel_calls, rel_hops, enqueued,
                   results_in, normVars>>

\* lines 289-292: an identifier already explored is passed over
SkipExplored ==
    /\ pc = "foruri"
    /\ org_data.dbpedia_uri[uri_idx] \in explored_uris
    /\ pc' = AfterUri(uri_idx, org_data)
    /\ uri_idx' = uri_idx + 1
    /\ UNCHANGED <<seed_organizations, max_depth, queue, all_org_data,
                   explored_uris, relationships, org_name, depth, org_data,
                   orgs_df, rel_df, histVars>>
    /\ failed' = "no" /\ UNCHANGED <<results_in, normVars>>

\* line 294: a new identifier is marked explored
Explore ==
    /\ pc = "foruri"
    /\ org_data.dbpedia_uri[uri_idx] \notin explored_uris
    /\ explored_uris' = MarkExplored(explored_uris, org_data.dbpedia_uri[uri_idx])
    /\ fresh' = fresh + 1
    /\ pc' = "expand"
    /\ UNCHANGED <<seed_organizations, max_depth, queue, all_org_data,
                   relationships, org_name, depth, org_data, uri_idx,
                   orgs_df, rel_df, queue_hops, hops, ent_calls, ent_uris,
                   rel_calls, rel_hops, enqueued, dequeued, pauses, unpaused>>
    /\ failed' = "no" /\ UNCHANGED <<results_in, normVars>>

\* lines 296-309: the relation resolver is queried, the identifier's set is
\* built and the labels of unexplored related identifiers are enqueued
Expand ==
    /\ pc = "expand"
    /\ MayExpand(depth, max_depth)
    /\ \E outcome \in RelatedOutcomes :
         LET uri == org_data.dbpedia_uri[uri_idx]
             related_results == query_related_organizations(outcome)
             related_orgs == process_related_organizations(related_results)
             q == Enqueue(queue, related_orgs, explored_uris, depth)
         IN /\ relationships' =
                  DictSet(relationships, uri, RelatedSet(related_orgs))
            /\ queue' = q
            /\ queue_hops' = queue_hops \o
                  [i \in 1..(Len(q) - Len(queue)) |-> hops + 1]
            /\ enqueued' = enqueued + (Len(q) - Len(queue))
            /\ rel_calls' = [rel_calls EXCEPT ![uri] = @ + 1]
            /\ rel_hops' = [rel_hops EXCEPT ![uri] = hops]
            /\ failed' = IF outcome = Raised THEN "relation" ELSE "no"
            \* an exception that leaves the query function ends the crawl
            /\ pc' = IF related_results = Raised THEN "aborted" ELSE "sleep"
    /\ unpaused' = TRUE
    /\ UNCHANGED <<seed_organizations, max_depth, all_org_data, explored_uris,
                   org_name, depth, org_data, uri_idx, orgs_df, rel_df,
                   hops, ent_calls, ent_uris, dequeued, pauses, fresh,
                   results_in, normVars>>

\* line 296, condition false: at the depth bound nothing is queried
NoExpand ==
    /\ pc = "expand"
    /\ ~MayExpand(depth, max_depth)
    /\ pc' = "sleep"
    /\ UNCHANGED <<seed_organizations, max_depth, queue, all_org_data,
                   explored_uris, relationships, org_name, depth, org_data,
                   uri_idx, orgs_df, rel_df, histVars>>
    /\ failed' = "no" /\ UNCHANGED <<results_in, normVars>>

\* mutant: the for-uri body goes on without the pause
SleepOmitted ==
    /\ pc = "sleep"
    /\ pc' = AfterUri(uri_idx, org_data)
    /\ uri_idx' = uri_idx + 1
    /\ UNCHANGED <<seed_organizations, max_depth, queue, all_org_data,
                   explored_uris, relationships, org_name, depth, org_data,
                   orgs_df, rel_df, histVars>>
    /\ failed' = "no" /\ UNCHANGED <<results_in, normVars>>

\* line 311: time.sleep(1), the last statement of the for-uri body
Sleep ==
    /\ pc = "sleep"
    /\ pauses' = pauses + 1
    /\ unpaused' = FALSE
    /\ pc' = AfterUri(uri_idx, org_data)
    /\ uri_idx' = uri_idx + 1
    /\ UNCHANGED <<seed_organizations, max_depth, queue, all_org_data,
                   explored_uris, relationships, org_name, depth, org_data,
                   orgs_df, rel_df, queue_hops, hops, ent_calls, ent_uris,
                   rel_calls, rel_hops, enqueued, dequeued, fresh>>
    /\ failed' = "no" /\ UNCHANGED <<results_in, normVars>>

\* mutant: the loop does not end on an empty queue
ReturnSpin ==
    /\ pc = "loop" /\ ~QueueNonEmpty(queue)
    /\ UNCHANGED vars

\* lines 272, 313: the queue is empty, the function returns
Return ==
    /\ pc = "loop" /\ ~QueueNonEmpty(queue)
    /\ pc' = "done"
    /\ UNCHANGED <<seed_organizations, max_depth, queue, all_org_data,
                   explored_uris, relationships, org_name, depth, org_data,
                   uri_idx, orgs_df, rel_df, histVars>>
    /\ failed' = "no" /\ UNCHANGED <<results_in, normVars>>

(***************************************************************************)
(* save_results_to_csv                                                     *)
(***************************************************************************)
\* mutant: a position past the end gives None, the first value is not used
AttrAtNoFallback(seq, idx0) ==
    IF idx0 < Len(seq) THEN seq[idx0 + 1] ELSE NoneStr

\* seq[uri_idx] if uri_idx < len(seq) else (seq[0] if seq else None);
\* uri_idx counts from 0
AttrAt(seq, idx0) ==
    IF idx0 < Len(seq) THEN seq[idx0 + 1]
    ELSE IF seq # <<>> THEN seq[1] ELSE NoneStr

RECURSIVE Join(_)
\* "|".join(seq)
Join(seq) ==
    IF seq = <<>> THEN ""
    ELSE IF Len(seq) = 1 THEN seq[1]
    ELSE seq[1] \o "|" \o Join(Tail(seq))

\* mutant: every row of a record carries the record's first identifier
OrgRowFirstUri(org, i) ==
    [name |-> org.name,
     uri |-> org.dbpedia_uri[1],
     abstract |-> AttrAt(org.abstract, i - 1),
     headquarters |-> AttrAt(org.headquarters, i - 1),
     founding_date |-> AttrAt(org.founding_date, i - 1),
     employees |-> AttrAt(org.employees, i - 1),
     locations |-> IF org.locations # <<>> THEN Join(org.locations)
                   ELSE NoneStr,
     countries |-> IF org.countries # <<>> THEN Join(org.countries)
                   ELSE NoneStr]

\* the row dict built for the identifier at position i (from 1) of org
OrgRow(org, i) ==
    [name |-> org.name,
     uri |-> org.dbpedia_uri[i],
     abstract |-> AttrAt(org.abstract, i - 1),
     headquarters |-> AttrAt(org.headquarters, i - 1),
     founding_date |-> AttrAt(org.founding_date, i - 1),
     employees |-> AttrAt(org.employees, i - 1),
     locations |-> IF org.locations # <<>> THEN Join(org.locations)
                   ELSE NoneStr,
     countries |-> IF org.countries # <<>> THEN Join(org.countries)
                   ELSE NoneStr]

RECURSIVE OrgLoopLastWins(_, _, _)
\* mutant: an identifier seen again overwrites the row it already has
OrgLoopLastWins(org, i, st) ==
    IF i > Len(org.dbpedia_uri) THEN st
    ELSE IF org.dbpedia_uri[i] \in st.seen
    THEN OrgLoopLastWins(org, i + 1,
             [rows |-> [j \in 1..Len(st.rows) |->
                           IF st.rows[j].uri = org.dbpedia_uri[i]
                           THEN OrgRow(org, i) ELSE st.rows[j]],
              seen |-> st.seen])
    ELSE OrgLoopLastWins(org, i + 1,
             [rows |-> Append(st.rows, OrgRow(org, i)),
              seen |-> st.seen \cup {org.dbpedia_uri[i]}])

RECURSIVE OrgLoop(_, _, _)
\* for uri_idx, uri in enumerate(org["dbpedia_uri"]): from position i on,
\* st = [rows, seen] is (orgs_rows, seen_uris)
OrgLoop(org, i, st) ==
    IF i > Len(org.dbpedia_uri) THEN st
    ELSE IF org.dbpedia_uri[i] \in st.seen THEN OrgLoop(org, i + 1, st)
    ELSE OrgLoop(org, i + 1,
                 [rows |-> Append(st.rows, OrgRow(org, i)),
                  seen |-> st.seen \cup {org.dbpedia_uri[i]}])

RECURSIVE OrgsLoop(_, _)
\* for org in all_org_data:
OrgsLoop(data, st) ==
    IF data = <<>> THEN st
    ELSE IF Head(data).dbpedia_uri = <<>> THEN OrgsLoop(Tail(data), st)
    ELSE OrgsLoop(Tail(data), OrgLoop(Head(data), 1, st))

\* mutant: orgs_rows is emptied at the start of every record
OrgsRowsLastRecord(data) ==
    IF data = <<>> THEN <<>>
    ELSE OrgsLoop(<<data[Len(data)]>>, [rows |-> <<>>, seen |-> {}]).rows

OrgsRows(data) == OrgsLoop(data, [rows |-> <<>>, seen |-> {}]).rows

RECURSIVE DropDuplicates(_)
\* DataFrame.drop_duplicates(subset=["uri"]): the first row of each uri stays
DropDuplicates(rows) ==
    IF rows = <<>> THEN <<>>
    ELSE LET init == DropDuplicates(SubSeq(rows, 1, Len(rows) - 1))
             last == rows[Len(rows)]
         IN IF \E j \in 1..Len(init) : init[j].uri = last.uri THEN init
            ELSE Append(init, last)

\* mutant: the key of a pair is its source alone
RelIdSourceOnly(source_uri, target_uri) == source_uri

\* f"{source_uri}||{target_uri}"
RelId(source_uri, target_uri) == source_uri \o "||" \o target_uri

\* mutant: the source is written into both columns
RelRowSourceTwice(source_uri, target_uri) ==
    [source_uri |-> source_uri, target_uri |-> source_uri]

\* {"source_uri": source_uri, "target_uri": target_uri}
RelRow(source_uri, target_uri) ==
    [source_uri |-> source_uri, target_uri |-> target_uri]

RECURSIVE Perms(_)
\* the orders in which a set can be iterated
Perms(S) ==
    IF S = {} THEN {<<>>}
    ELSE UNION {{<<x>> \o p : p \in Perms(S \ {x})} : x \in S}

RECURSIVE ItemOrders(_)
\* the sequences of (source_uri, target_uri) the nested loops can visit:
\* the dict in insertion order, each set in any order
ItemOrders(rel) ==
    IF rel = <<>> THEN {<<>>}
    ELSE {[i \in 1..Len(p) |-> <<Head(rel).key, p[i]>>] \o rest :
              p \in Perms(Head(rel).val), rest \in ItemOrders(Tail(rel))}

RECURSIVE RelLoop(_, _)
\* the body of the nested loops over the visited pairs,
\* st = [rows, seen] is (rel_rows, seen_relationships)
RelLoop(items, st) ==
    IF items = <<>> THEN st
    ELSE LET s == Head(items)[1]
             t == Head(items)[2]
         IN IF RelId(s, t) \in st.seen THEN RelLoop(Tail(items), st)
            ELSE RelLoop(Tail(items),
                         [rows |-> Append(st.rows, RelRow(s, t)),
                          seen |-> st.seen \cup {RelId(s, t)}])

RelRows(items) == RelLoop(items, [rows |-> <<>>, seen |-> {}]).rows

\* lines 328-399: both tables are built and written
SaveResults ==
    /\ pc = "done"
    /\ orgs_df' = DropDuplicates(OrgsRows(all_org_data))
    /\ \E items \in ItemOrders(relationships) : rel_df' = RelRows(items)
    /\ pc' = "saved"
    /\ UNCHANGED <<seed_organizations, max_depth, queue, all_org_data,
                   explored_uris, relationships, org_name, depth, org_data,
                   uri_idx, histVars>>
    /\ failed' = "no" /\ UNCHANGED <<results_in, normVars>>

Next ==
    \/ Discard
    \/ ResolveEntity
    \/ SkipExplored
    \/ Explore
    \/ Expand
    \/ NoExpand
    \/ Sleep
    \/ Return
    \/ SaveResults

\* lines 402-410: the crawl, then the export
Spec == Init /\ [][Next]_vars

(***************************************************************************)
(* save_results_to_csv on arbitrary arguments.  The entity merge reads     *)
(* only all_org_data and the relationship merge only relationships, so the *)
(* arguments vary one at a time.                                           *)
(***************************************************************************)
\* an org_data record as process_results builds it for `name` from rows
\* some of which lack some fields
ExportRecord(name, uris) ==
    IF name = "A"
    THEN [name |-> name, dbpedia_uri |-> uris,
          abstract |-> <<"a1", "a2">>, headquarters |-> <<"h1">>,
          founding_date |-> <<>>, industry |-> <<"i1">>,
          employees |-> <<"e1", "e2">>, locations |-> <<"l1", "l2">>,
          countries |-> <<>>]
    ELSE [name |-> name, dbpedia_uri |-> uris,
          abstract |-> <<"b1">>, headquarters |-> <<"h2", "h3">>,
          founding_date |-> <<"f1">>, industry |-> <<>>,
          employees |-> <<>>, locations |-> <<>>,
          countries |-> <<"c1">>]

ExportRecords ==
    {ExportRecord(n, u) : n \in Names, u \in SeqsUpTo(CrawlUris, MaxRows)}

ExportEntityLists == SeqsUpTo(ExportRecords, MaxRecords)

\* dicts of at most MaxKeys entries with distinct keys
ExportRelMaps ==
    {d \in SeqsUpTo([key : PipeUris, val : SUBSET PipeUris], MaxKeys) :
        \A i, j \in 1..Len(d) : i # j => d[i].key # d[j].key}

InitExport ==
    /\ \/ all_org_data \in ExportEntityLists /\ relationships = <<>>
       \/ all_org_data = <<>> /\ relationships \in ExportRelMaps
    /\ pc = "done"
    /\ seed_organizations = <<>> /\ max_depth = 0
    /\ queue = <<>> /\ explored_uris = {}
    /\ org_name = NoneStr /\ depth = 0 /\ org_data = None /\ uri_idx = 0
    /\ orgs_df = <<>> /\ rel_df = <<>>
    /\ queue_hops = <<>> /\ hops = 0
    /\ ent_calls = <<>> /\ ent_uris = {}
    /\ rel_calls = [u \in CrawlUris |-> 0]
    /\ rel_hops = [u \in CrawlUris |-> 0]
    /\ enqueued = 0 /\ dequeued = FALSE
    /\ pauses = 0 /\ fresh = 0 /\ unpaused = FALSE
    /\ failed = "no" /\ results_in = None
    /\ NormIdle

NextExport == SaveResults

SpecExport == InitExport /\ [][NextExport]_vars

\* the crawls of at most one seed, and of any seed list at depth 0 or below
LiveInit == Init /\ (Len(seed_organizations) <= 1 \/ max_depth <= 0)

\* the crawl under the scheduling of a sequential program: it takes its
\* next step whenever it has one
LiveSpec == LiveInit /\ [][Next]_vars /\ WF_vars(Next)

(***************************************************************************)
(* Properties of the crawl                                                 *)
(***************************************************************************)
\* the identifier the for-uri loop is at
CurrentUri == org_data.dbpedia_uri[uri_idx]

\* C1: the relation resolver is invoked at most once per identifier: an
\* identifier is in the explored set when its relations are queried, every
\* queried identifier is explored, and every key of the relationship map
\* was queried exactly once.
C1_QueriedAtMostOnce ==
    /\ \A u \in CrawlUris :
          /\ rel_calls[u] <= 1
          /\ rel_calls[u] = 1 => u \in explored_uris
          /\ u \in Keys(relationships) => rel_calls[u] = 1
    /\ pc = "expand" =>
          CurrentUri \in explored_uris /\ rel_calls[CurrentUri] = 0

\* C1 witness: the crawl has ended, an identifier that was queried once
\* came back in a later record
C1_Witness ==
    /\ pc = "done"
    /\ \E u \in CrawlUris :
          /\ rel_calls[u] = 1
          /\ \E i, j \in 1..Len(all_org_data) :
                /\ i < j
                /\ u \in Range(all_org_data[i].dbpedia_uri)
                /\ u \in Range(all_org_data[j].dbpedia_uri)

\* C2: the depth of an entry is the number of relation hops that led to it,
\* and a relation query is issued only while processing an item of fewer
\* than max_depth hops; no identifier is queried from an entry beyond the
\* depth bound.
C2_DepthBoundRespected ==
    /\ \A i \in 1..Len(queue) : queue[i][2] = queue_hops[i]
    /\ dequeued => depth = hops
    /\ \A u \in CrawlUris : rel_calls[u] > 0 => rel_hops[u] < max_depth

\* C2 witness: with max_depth = 1 an identifier found at the bound was
\* explored without a relation query, after one at depth 0 was queried
C2_Witness ==
    /\ max_depth = 1 /\ pc = "sleep" /\ hops = 1
    /\ rel_calls[CurrentUri] = 0
    /\ \E u \in CrawlUris : rel_calls[u] = 1 /\ rel_hops[u] = 0

\* C3: the crawl loop ends: the queue empties and the function returns.
C3_Terminates == <>(pc = "done")

\* C3 witness: the crawl returned although the relations form a cycle and
\* one label was enqueued, and looked up, twice
C3_Witness ==
    /\ pc = "done" /\ queue = <<>> /\ enqueued >= 2
    /\ Len(seed_organizations) = 1
    /\ \E i, j \in 2..Len(ent_calls) : i < j /\ ent_calls[i] = ent_calls[j]
    /\ \E u, v \in CrawlUris :
          /\ u # v
          /\ u \in Keys(relationships) /\ v \in Keys(relationships)
          /\ v \in Lookup(relationships, u)
          /\ u \in Lookup(relationships, v)

\* C7: with max_depth = 0 the entity resolver is called once per seed entry
\* in seed order, the relation resolver never, nothing is enqueued, the
\* relationship map and table are empty and every row of the entities table
\* is for an identifier returned for a seed name.
C7_DepthZero ==
    max_depth = 0 =>
        /\ \A u \in CrawlUris : rel_calls[u] = 0
        /\ enqueued = 0
        /\ relationships = <<>>
        /\ Len(ent_calls) <= Len(seed_organizations)
        /\ \A i \in 1..Len(ent_calls) : ent_calls[i] = seed_organizations[i]
        /\ pc \in {"done", "saved"} => ent_calls = seed_organizations
        /\ pc = "saved" =>
              /\ rel_df = <<>>
              /\ \A i \in 1..Len(orgs_df) : orgs_df[i].uri \in ent_uris

\* C7 witness: two seeds, depth 0, both resolved, tables written
C7_Witness ==
    /\ max_depth = 0 /\ pc = "saved"
    /\ Len(seed_organizations) = 2 /\ Len(all_org_data) = 2
    /\ Len(orgs_df) = 2

\* the item just processed resolved to identifiers, at least one of them
\* new, so that relation expansion took place for it
ItemExpanded ==
    /\ pc = "loop" /\ dequeued
    /\ org_data # None /\ org_data.dbpedia_uri # <<>>
    /\ fresh >= 1

C10_PauseBeforeNextDequeue == (pc = "loop" /\ QueueNonEmpty(queue)) => ~unpaused

(***************************************************************************)
(* Properties of the export                                                *)
(***************************************************************************)
\* the identifiers that occur in some record's identifier list
RecordUris(data) == UNION {Range(data[k].dbpedia_uri) : k \in 1..Len(data)}

\* the (source, target) pairs of a relationship map
Pairs(rel) == UNION {{<<rel[i].key, t>> : t \in rel[i].val} : i \in 1..Len(rel)}

\* the positions of the rows of a table that carry identifier u
RowsOf(table, u) == {i \in 1..Len(table) : table[i].uri = u}

\* C4: the entities table has exactly one row for each identifier that
\* occurs in some record's identifier list, and no other row.
C4_OneRowPerIdentifier ==
    pc = "saved" =>
        /\ \A u \in RecordUris(all_org_data) :
               Cardinality(RowsOf(orgs_df, u)) = 1
        /\ \A i \in 1..Len(orgs_df) : orgs_df[i].uri \in RecordUris(all_org_data)

\* C4 witness: exported records of which two share an identifier and one
\* holds an identifier twice, next to a second identifier
C4_Witness ==
    /\ pc = "saved" /\ Len(all_org_data) = 2 /\ Len(orgs_df) = 2
    /\ all_org_data[1].dbpedia_uri = <<"x", "x">>
    /\ all_org_data[2].dbpedia_uri = <<"y", "x">>

\* C5: the relationships table never holds two rows with the same ordered
\* (source_uri, target_uri) pair.
C5_NoDuplicatePairs ==
    pc = "saved" =>
        \A i, j \in 1..Len(rel_df) : i # j => rel_df[i] # rel_df[j]

\* C5 witness: a map of two sources with a common target and a second
\* target was exported
C5_Witness ==
    /\ pc = "saved" /\ Len(relationships) = 2 /\ Len(rel_df) = 3
    /\ relationships[1].val \cap relationships[2].val # {}

\* C6: pairs are duplicates only when source and target are both equal:
\* every pair of the map yields a row and distinct pairs stay distinct rows.
C6_ExactPairDedup ==
    pc = "saved" =>
        /\ {<<rel_df[i].source_uri, rel_df[i].target_uri>> :
                i \in 1..Len(rel_df)} = Pairs(relationships)
        /\ Len(rel_df) = Cardinality(Pairs(relationships))

\* the first record that holds identifier u, and u's first position in it
FirstRecord(data, u) ==
    CHOOSE k \in 1..Len(data) :
        /\ u \in Range(data[k].dbpedia_uri)
        /\ \A m \in 1..(k - 1) : u \notin Range(data[m].dbpedia_uri)

FirstPosition(org, u) ==
    CHOOSE i \in 1..Len(org.dbpedia_uri) :
        /\ org.dbpedia_uri[i] = u
        /\ \A m \in 1..(i - 1) : org.dbpedia_uri[m] # u

\* the value a row takes from an attribute sequence at position i (from 1)
ValueFor(seq, i) ==
    IF i <= Len(seq) THEN seq[i] ELSE IF Len(seq) > 0 THEN seq[1] ELSE NoneStr

\* C8: the row of an identifier carries the name and the attribute values
\* of the first record that holds it, taken at its first position there;
\* later records and positions contribute nothing.
C8_FirstWriterWins ==
    pc = "saved" =>
        \A r \in 1..Len(orgs_df) :
            LET u == orgs_df[r].uri
                org == all_org_data[FirstRecord(all_org_data, u)]
                i == FirstPosition(org, u)
            IN /\ orgs_df[r].name = org.name
               /\ orgs_df[r].abstract = ValueFor(org.abstract, i)
               /\ orgs_df[r].headquarters = ValueFor(org.headquarters, i)
               /\ orgs_df[r].founding_date = ValueFor(org.founding_date, i)
               /\ orgs_df[r].employees = ValueFor(org.employees, i)
               /\ orgs_df[r].locations =
                      (IF org.locations = <<>> THEN NoneStr
                       ELSE Join(org.locations))
               /\ orgs_df[r].countries =
                      (IF org.countries = <<>> THEN NoneStr
                       ELSE Join(org.countries))

\* C8 witness: two names resolved to the same identifier with different
\* attribute values, and the row is the first one's
C8_Witness ==
    /\ pc = "saved" /\ Len(all_org_data) = 2
    /\ all_org_data[1].name = "A" /\ all_org_data[2].name = "B"
    /\ all_org_data[1].dbpedia_uri = <<"x">>
    /\ all_org_data[2].dbpedia_uri = <<"x">>
    /\ Len(orgs_df) = 1 /\ orgs_df[1].name = "A" /\ orgs_df[1].abstract = "a1"

(***************************************************************************)
(* Properties of the crawl: failures, frame, order                         *)
(***************************************************************************)
\* C11: a resolver call that raises never ends the crawl.  A failed entity
\* call leaves the loop at its head with the entry popped and nothing else
\* changed; a failed relation call gives the identifier an empty set,
\* leaves the other entries, the queue and the entity list as they were and
\* goes on to the pause; the function returns only on an empty queue.
C11_FailureIsNoData ==
    [][/\ pc' # "aborted"
       /\ failed' = "entity" =>
             /\ pc' = "loop"
             /\ queue' = Tail(queue)
             /\ all_org_data' = all_org_data
             /\ explored_uris' = explored_uris
             /\ relationships' = relationships
       /\ failed' = "relation" =>
             /\ pc' = "sleep"
             /\ Lookup(relationships', CurrentUri) = {}
             /\ \A k \in Keys(relationships) \ {CurrentUri} :
                   /\ k \in Keys(relationships')
                   /\ Lookup(relationships', k) = Lookup(relationships, k)
             /\ queue' = queue
             /\ all_org_data' = all_org_data
             /\ explored_uris' = explored_uris
       /\ pc' = "done" => queue' = <<>>]_vars

\* C11 witness: an entity call failed in the middle of a crawl that has
\* records and relationships and still has entries to process
C11_Witness ==
    /\ failed = "entity" /\ pc = "loop"
    /\ QueueNonEmpty(queue)
    /\ all_org_data # <<>> /\ relationships # <<>>

(***************************************************************************)
(* Properties of the export: attribute values, determinism                 *)
(***************************************************************************)
\* the columns filled from one position of an attribute sequence
SingleValued == {"abstract", "headquarters", "founding_date", "employees"}

\* C12: in the row built for the identifier at position i of a record, a
\* single-valued attribute is the sequence's element at position i when
\* there is one, else its first element when the sequence is non-empty,
\* else null.
C12_AttributeFallback ==
    pc = "saved" =>
        \A r \in 1..Len(orgs_df) : \A a \in SingleValued :
            LET u == orgs_df[r].uri
                org == all_org_data[FirstRecord(all_org_data, u)]
                i == FirstPosition(org, u)
                seq == org[a]
            IN /\ i <= Len(seq) => orgs_df[r][a] = seq[i]
               /\ (i > Len(seq) /\ Len(seq) > 0) => orgs_df[r][a] = seq[1]
               /\ Len(seq) = 0 => orgs_df[r][a] = NoneStr

\* C12 witness: the row of a record's second identifier took one attribute
\* from the second position, one from the first for want of a second, and
\* one is null
C12_Witness ==
    /\ pc = "saved" /\ Len(all_org_data) = 1
    /\ all_org_data[1].name = "A"
    /\ all_org_data[1].dbpedia_uri = <<"x", "y">>
    /\ Len(orgs_df) = 2
    /\ orgs_df[2].abstract = "a2"
    /\ orgs_df[2].headquarters = "h1"
    /\ orgs_df[2].founding_date = NoneStr

(***************************************************************************)
(* process_results on arbitrary resolver answers                           *)
(***************************************************************************)
\* the columns of the SELECT a row may carry besides ?label, which every
\* row carries; every other column is handled like these by lines 108-123
ProcessFields == {"organization", "abstract", "location"}

FieldValues(k) ==
    IF k = "organization" THEN CrawlUris
    ELSE IF k = "abstract" THEN {"a1", "a2"}
    ELSE IF k = "location" THEN {"l1"}
    ELSE {"lb"}

\* the rows: ?label and any subset of the other columns
ProcessBindings ==
    UNION {{b \in [K \cup {"label"} ->
                      UNION {FieldValues(k) : k \in ProcessFields \cup {"label"}}] :
                \A k \in DOMAIN b : b[k] \in FieldValues(k)} :
              K \in SUBSET ProcessFields}

ProcessAnswers ==
    {None, [head |-> "h"], [results |-> [other |-> "o"]]}
    \cup {[results |-> [bindings |-> b]] :
              b \in SeqsUpTo(ProcessBindings, MaxProcessRows)}

InitProcess ==
    /\ results_in \in ProcessAnswers
    /\ org_name \in Names
    /\ pc = "process"
    /\ org_data = None
    /\ seed_organizations = <<>> /\ max_depth = 0
    /\ queue = <<>> /\ all_org_data = <<>>
    /\ explored_uris = {} /\ relationships = <<>>
    /\ depth = 0 /\ uri_idx = 0
    /\ orgs_df = <<>> /\ rel_df = <<>>
    /\ queue_hops = <<>> /\ hops = 0
    /\ ent_calls = <<>> /\ ent_uris = {}
    /\ rel_calls = [u \in CrawlUris |-> 0]
    /\ rel_hops = [u \in CrawlUris |-> 0]
    /\ enqueued = 0 /\ dequeued = FALSE
    /\ pauses = 0 /\ fresh = 0 /\ unpaused = FALSE
    /\ failed = "no"
    /\ NormIdle

\* org_data = process_results(results, org_name)
ProcessResults ==
    /\ pc = "process"
    /\ org_data' = process_results(results_in, org_name)
    /\ pc' = "processed"
    /\ UNCHANGED <<seed_organizations, max_depth, queue, all_org_data,
                   explored_uris, relationships, org_name, depth, uri_idx,
                   orgs_df, rel_df, results_in, histVars, failed, normVars>>

NextProcess == ProcessResults

SpecProcess == InitProcess /\ [][NextProcess]_vars

(***************************************************************************)
(* Properties of process_results                                           *)
(***************************************************************************)
\* the positions of the rows that carry column `key`
RowsWith(bindings, key) ==
    {p \in 1..Len(bindings) : key \in DOMAIN bindings[p]}

\* the position of the j-th row (from 1) that carries column `key`
NthRowWith(bindings, key, j) ==
    CHOOSE p \in RowsWith(bindings, key) :
        Cardinality({q \in RowsWith(bindings, key) : q < p}) = j - 1

\* a record was built
RecordBuilt == pc = "processed" /\ org_data # None

\* C13 as claimed: the identifier list of a record holds no identifier
\* twice.
C13_NoDuplicateIdentifiers ==
    RecordBuilt =>
        \A i, j \in 1..Len(org_data.dbpedia_uri) :
            i # j => org_data.dbpedia_uri[i] # org_data.dbpedia_uri[j]

\* C13 as the code has it: the identifier list holds the identifier of
\* every row that carries one, once per row and in row order, repeated
\* when rows repeat it.
C13_IdentifierPerRow ==
    RecordBuilt =>
        LET b == results_in.results.bindings
            uris == org_data.dbpedia_uri
        IN /\ Len(uris) = Cardinality(RowsWith(b, "organization"))
           /\ \A j \in 1..Len(uris) :
                 uris[j] = b[NthRowWith(b, "organization", j)].organization

\* C13 witness: three rows, the first and the last for the same identifier
C13_Witness ==
    /\ RecordBuilt
    /\ Len(results_in.results.bindings) = 3
    /\ org_data.dbpedia_uri = <<"x", "y", "x">>

\* every row carries ?organization, as the rows of the SELECT of lines
\* 42-56 do: it is the subject of the required pattern
EveryRowIdentified ==
    \A p \in 1..Len(results_in.results.bindings) :
        "organization" \in DOMAIN results_in.results.bindings[p]

\* C14: a value at position i of an attribute sequence comes from the row
\* the identifier at position i comes from: there is an identifier at
\* position i, and the row that gave it carries that value in the
\* attribute's column.  Stated for answers all of whose rows carry an
\* identifier.
C14_AlignedByPosition ==
    (RecordBuilt /\ EveryRowIdentified) =>
        LET b == results_in.results.bindings
        IN \A f \in {<<"abstract", "abstract">>, <<"locations", "location">>} :
              \A i \in 1..Len(org_data[f[1]]) :
                 /\ i <= Len(org_data.dbpedia_uri)
                 /\ LET row == b[NthRowWith(b, "organization", i)]
                    IN /\ f[2] \in DOMAIN row
                       /\ row[f[2]] = org_data[f[1]][i]

\* the rows of a table as a collection: each row with its number of copies
RowBag(table) ==
    [row \in Range(table) |-> Cardinality({i \in 1..Len(table) : table[i] = row})]

\* C15: a second run of save_results_to_csv on the same arguments writes
\* the same two tables up to row order: whatever order the sets of the
\* relationship map are iterated in, the relationship rows are those of
\* the first run, and the entity rows are the ones the merge of the same
\* list gives.
C15_ExportDeterministic ==
    pc = "saved" =>
        /\ \A items \in ItemOrders(relationships) :
              RowBag(RelRows(items)) = RowBag(rel_df)
        /\ RowBag(DropDuplicates(OrgsRows(all_org_data))) = RowBag(orgs_df)

\* C15 witness: a map was exported whose first set can be iterated in more
\* than one order and whose second source shares a target with the first
C15_Witness ==
    /\ pc = "saved" /\ Len(relationships) = 2
    /\ Cardinality(relationships[1].val) >= 2
    /\ relationships[1].val \cap relationships[2].val # {}
    /\ Len(rel_df) >= 3

(***************************************************************************)
(* Properties of the crawl: queue order, explored set, relationship map    *)
(***************************************************************************)
\* C16: the queue is served first-in-first-out, so depths come out in
\* non-decreasing order: the queue is ordered by depth, no entry waiting in
\* it is shallower than the item dequeued last or more than one level
\* deeper, a dequeue never lowers the depth, and entries are appended at
\* the end with the depth of the item being processed plus one.
C16_BreadthFirst ==
    /\ [](\A i, j \in 1..Len(queue) : i <= j => queue[i][2] <= queue[j][2])
    /\ [](dequeued =>
             \A i \in 1..Len(queue) :
                 depth <= queue[i][2] /\ queue[i][2] <= depth + 1)
    /\ [][/\ (dequeued /\ Len(queue') < Len(queue)) =>
                /\ queue' = Tail(queue)
                /\ depth' = Head(queue)[2]
                /\ depth' >= depth
          /\ Len(queue') > Len(queue) =>
                /\ SubSeq(queue', 1, Len(queue)) = queue
                /\ \A i \in (Len(queue) + 1)..Len(queue') :
                      queue'[i][2] = depth + 1]_vars

\* C16 witness: of two seeds the first one's expansion appended entries of
\* depth 1; the second seed was served before them, then the first of
\* them, and entries are still waiting
C16_Witness ==
    /\ dequeued /\ depth = 1 /\ pc = "foruri"
    /\ Len(seed_organizations) = 2
    /\ Len(ent_calls) = 3
    /\ QueueNonEmpty(queue)

\* C17: a step whose entity call yields no identifiers (the call raised,
\* the answer had no rows, or no row carried an identifier) pops the entry
\* and changes nothing else: no record appended, explored set and
\* relationship map as before, nothing appended to the queue, the name
\* looked up once and the loop back at its head.
C17_NoIdentifiersNoEffect ==
    [][(/\ ent_calls' # ent_calls
        /\ (org_data' = None \/ org_data'.dbpedia_uri = <<>>)) =>
           /\ queue' = Tail(queue)
           /\ all_org_data' = all_org_data
           /\ explored_uris' = explored_uris
           /\ relationships' = relationships
           /\ enqueued' = enqueued
           /\ rel_calls' = rel_calls
           /\ ent_calls' = Append(ent_calls, Head(queue)[1])
           /\ pc' = "loop"]_vars

\* C17 witness: in the middle of a crawl the answer for a name had rows but
\* none with an identifier
C17_Witness ==
    /\ pc = "loop" /\ dequeued
    /\ org_data # None /\ org_data.dbpedia_uri = <<>>
    /\ failed = "no"
    /\ all_org_data # <<>> /\ explored_uris # {} /\ relationships # <<>>
    /\ QueueNonEmpty(queue)

\* the relation resolver has been invoked for identifier u
Queried(u) == rel_calls[u] >= 1

\* C18 as claimed: between two steps of the loop, an identifier is in the
\* explored set if and only if the relation resolver has been invoked for
\* it and it is a key of the relationship map.
C18_ExploredIffQueried ==
    pc \in {"loop", "done"} =>
        \A u \in CrawlUris :
            u \in explored_uris <=> (Queried(u) /\ u \in Keys(relationships))

\* C18 as the code has it: the queried identifiers are exactly the keys of
\* the relationship map and all of them are explored; an explored
\* identifier that was not queried is either the one just marked, whose
\* query decision is pending, or was met at the depth bound, where
\* identifiers are marked explored and nothing is queried.
C18_QueriedAreExplored ==
    \A u \in CrawlUris :
        /\ Queried(u) <=> u \in Keys(relationships)
        /\ Queried(u) => u \in explored_uris
        /\ (u \in explored_uris /\ ~Queried(u)) =>
               \/ pc = "expand" /\ u = CurrentUri
               \/ dequeued /\ depth >= max_depth

\* C18 witness: a crawl of depth 1 ended with one identifier queried and
\* another explored at depth 1 without a query
C18_Witness ==
    /\ pc = "done" /\ max_depth = 1
    /\ \E u, v \in CrawlUris :
          /\ Queried(u) /\ u \in Keys(relationships)
          /\ v \in explored_uris /\ ~Queried(v) /\ v \notin Keys(relationships)

\* C19: no step takes an identifier out of the explored set, removes a key
\* of the relationship map or changes the set of a key that is there.
C19_OnlyGrow ==
    [][/\ explored_uris \subseteq explored_uris'
       /\ \A k \in Keys(relationships) :
             /\ k \in Keys(relationships')
             /\ Lookup(relationships', k) = Lookup(relationships, k)]_vars

\* C19 witness: the map holds two entries, the older one non-empty, and an
\* identifier that has its entry came back in a later record
C19_Witness ==
    /\ pc = "foruri" /\ Len(relationships) = 2
    /\ relationships[1].val # {}
    /\ CurrentUri \in Keys(relationships)
    /\ CurrentUri \in explored_uris

\* C20: with max_depth >= 0 every queue entry and every dequeued item has
\* a depth in 0..max_depth, and every entry that left the queue was looked
\* up exactly once: the lookups made are the seeds plus the appended
\* entries minus the entries still waiting, so none was discarded.
C20_DiscardNeverTaken ==
    max_depth >= 0 =>
        /\ \A i \in 1..Len(queue) :
              0 <= queue[i][2] /\ queue[i][2] <= max_depth
        /\ 0 <= depth /\ depth <= max_depth
        /\ Len(ent_calls) = Len(seed_organizations) + enqueued - Len(queue)

\* C20 witness: a crawl of depth 1 ended after entries of depth 1 were
\* appended and served, each with a lookup
C20_Witness ==
    /\ pc = "done" /\ max_depth = 1
    /\ depth = 1 /\ enqueued >= 2
    /\ Len(ent_calls) = Len(seed_organizations) + enqueued

(***************************************************************************)
(* Properties of the crawl followed by the export                          *)
(***************************************************************************)
\* the identifiers that have a row in the entities table
EntityTableUris == {orgs_df[j].uri : j \in 1..Len(orgs_df)}

\* C21: every key of the relationship map is explored and occurs in the
\* identifier list of a record of the entity list, and once the tables are
\* written every source_uri of the relationships table has a row in the
\* entities table.
C21_SourceEndpointIntegrity ==
    /\ \A k \in Keys(relationships) :
          k \in explored_uris /\ k \in RecordUris(all_org_data)
    /\ pc = "saved" =>
          \A i \in 1..Len(rel_df) : rel_df[i].source_uri \in EntityTableUris

\* C21 witness: the tables of a crawl were written; a source that is the
\* second identifier of its record has its row, and the target of one of
\* its rows has none
C21_Witness ==
    /\ pc = "saved" /\ Len(all_org_data) >= 1
    /\ Len(all_org_data[1].dbpedia_uri) = 2
    /\ \E i \in 1..Len(rel_df) :
          /\ rel_df[i].source_uri = all_org_data[1].dbpedia_uri[2]
          /\ rel_df[i].source_uri \in EntityTableUris
          /\ rel_df[i].target_uri \notin EntityTableUris

(***************************************************************************)
(* 02_semiconductor_normalizing_data.py:                                   *)
(* normalize_with_smaller_batches_and_fallbacks.  The request to the       *)
(* language model is an external call; each attempt's outcome is chosen    *)
(* nondeterministically.  The time.sleep calls change no state.            *)
(***************************************************************************)
\* stop=stop_after_attempt(3)
StopAfterAttempt == 3

CompanyNames == {"Intel Corp.", "arm ltd"}

\* an attempt, or a whole call, ended in an exception
NormRaised == "<raised>"

\* what the model may answer for a name, after strip() and the removal of
\* quotes (lines 66-68); one answer equals the rule-based value
LlmAnswers(name) ==
    IF name = "Intel Corp." THEN {"Intel", "Intel Corporation"}
    ELSE {"Arm", "ARM Limited"}

\* the outcomes of one attempt: an answer, or an exception (lines 72-77)
AttemptOutcomes(name) == LlmAnswers(name) \cup {NormRaised}

\* @retry(wait=wait_fixed(2), stop=stop_after_attempt(3)): the value of the
\* first attempt that returns; an exception when every attempt raised
normalize_company_name(attempts) ==
    IF \A k \in 1..Len(attempts) : attempts[k] = NormRaised THEN NormRaised
    ELSE attempts[CHOOSE k \in 1..Len(attempts) :
                      /\ attempts[k] # NormRaised
                      /\ \A m \in 1..(k - 1) : attempts[m] = NormRaised]

\* lines 172-195 applied to the names of CompanyNames: lower case,
\* "\s+corp\.?$" and "\s+ltd\.?$" removed, title case
simple_company_name_cleanup(name) ==
    IF name = "Intel Corp." THEN "Intel" ELSE "Arm"

InitNormalize ==
    /\ company_names \in SeqsUpTo(CompanyNames, MaxNames)
    /\ norm_results = <<>> /\ failed_names = <<>>
    /\ name_idx = 0 /\ llm_ok = {} /\ by_fallback = {}
    /\ pc = "first"
    /\ results_in = None /\ org_name = NoneStr /\ org_data = None
    /\ seed_organizations = <<>> /\ max_depth = 0
    /\ queue = <<>> /\ all_org_data = <<>>
    /\ explored_uris = {} /\ relationships = <<>>
    /\ depth = 0 /\ uri_idx = 0
    /\ orgs_df = <<>> /\ rel_df = <<>>
    /\ queue_hops = <<>> /\ hops = 0
    /\ ent_calls = <<>> /\ ent_uris = {}
    /\ rel_calls = [u \in CrawlUris |-> 0]
    /\ rel_hops = [u \in CrawlUris |-> 0]
    /\ enqueued = 0 /\ dequeued = FALSE
    /\ pauses = 0 /\ fresh = 0 /\ unpaused = FALSE
    /\ failed = "no"

\* the normalizer touches nothing of the crawl and the export
CrawlUntouched ==
    UNCHANGED <<seed_organizations, max_depth, queue, all_org_data,
                explored_uris, relationships, org_name, depth, org_data,
                uri_idx, orgs_df, rel_df, results_in, histVars, failed>>

\* lines 130-143: one iteration of the first pass
FirstPass ==
    /\ pc = "first" /\ name_idx < Len(company_names)
    /\ LET name == company_names[name_idx + 1]
       IN \E attempts \in [1..StopAfterAttempt -> AttemptOutcomes(name)] :
             LET normalized_name == normalize_company_name(attempts)
             IN IF normalized_name # NormRaised
                THEN /\ norm_results' = DictSet(norm_results, name, normalized_name)
                     /\ llm_ok' = llm_ok \cup {name}
                     /\ by_fallback' = by_fallback \ {name}
                     /\ UNCHANGED failed_names
                ELSE /\ failed_names' = Append(failed_names, name)
                     /\ UNCHANGED <<norm_results, llm_ok, by_fallback>>
    /\ name_idx' = name_idx + 1
    /\ UNCHANGED <<company_names, pc>>
    /\ CrawlUntouched

\* lines 130, 145, 156: the first pass is over; the second one runs when a
\* name failed, else the function returns
FirstPassDone ==
    /\ pc = "first" /\ name_idx = Len(company_names)
    /\ pc' = IF failed_names # <<>> THEN "second" ELSE "returned"
    /\ name_idx' = 0
    /\ UNCHANGED <<company_names, norm_results, failed_names, llm_ok,
                   by_fallback>>
    /\ CrawlUntouched

\* lines 147-154: one iteration of the second pass
SecondPass ==
    /\ pc = "second" /\ name_idx < Len(failed_names)
    /\ LET name == failed_names[name_idx + 1]
       IN \E attempts \in [1..StopAfterAttempt -> AttemptOutcomes(name)] :
             LET normalized_name == normalize_company_name(attempts)
             IN IF normalized_name # NormRaised
                THEN /\ norm_results' = DictSet(norm_results, name, normalized_name)
                     /\ llm_ok' = llm_ok \cup {name}
                     /\ by_fallback' = by_fallback \ {name}
                ELSE /\ norm_results' =
                            DictSet(norm_results, name,
                                    simple_company_name_cleanup(name))
                     /\ by_fallback' = by_fallback \cup {name}
                     /\ UNCHANGED llm_ok
    /\ name_idx' = name_idx + 1
    /\ UNCHANGED <<company_names, failed_names, pc>>
    /\ CrawlUntouched

\* lines 147, 156: the second pass is over, the function returns
SecondPassDone ==
    /\ pc = "second" /\ name_idx = Len(failed_names)
    /\ pc' = "returned"
    /\ UNCHANGED <<company_names, norm_results, failed_names, name_idx,
                   llm_ok, by_fallback>>
    /\ CrawlUntouched

NextNormalize ==
    \/ FirstPass
    \/ FirstPassDone
    \/ SecondPass
    \/ SecondPassDone

SpecNormalize == InitNormalize /\ [][NextNormalize]_vars

\* C22: a name whose entry was written by the rule-based fallback had no
\* successful call in either pass, and what the fallback wrote is the
\* rule-based value: an answer obtained for a name is never replaced by it.
C22_FallbackOnlyAfterAllFailed ==
    \A name \in Keys(norm_results) :
        name \in by_fallback =>
            /\ name \notin llm_ok
            /\ Lookup(norm_results, name) = simple_company_name_cleanup(name)

====
